---- MODULE Spec2Model ----
(***************************************************************************)
(* Second Brain (src/app.js): the record store, its persistence to         *)
(* localStorage, the inbox pipeline (capture, deferred classification,     *)
(* conversion, deletion), the task / project / idea / contact handlers,    *)
(* the API-key handler and the import / clear handlers of the settings     *)
(* panel.                                                                  *)
(*                                                                         *)
(* JavaScript objects are modelled with their identity where the code      *)
(* depends on it: `defaultData` is one object, `state` is either that very *)
(* object (loadData returned defaultData) or a spread copy whose fields    *)
(* still point at defaultData's arrays and settings object until they are  *)
(* reassigned.  Array.push and field assignments on records mutate in      *)
(* place (visible through every alias); `state.x = state.x.filter(..)`     *)
(* makes a new array.                                                      *)
(***************************************************************************)
EXTENDS Integers, Sequences, FiniteSets, TLC

VARIABLES
    defaultData,   \* the module-level defaultData object (fields are mutable)
    state,         \* the module-level `state` binding
    persisted,     \* localStorage[DB_KEY]
    storageFull,   \* TRUE while localStorage.setItem throws (quota exceeded)
    currentPage,   \* the module-level currentPage
    inboxBadge,    \* textContent of #inboxBadge
    timers,        \* pending setTimeout(classifyInboxItem) callbacks, in order
    nextId,        \* number of ids generateId has handed out, plus one
    last,          \* the handler that ran last and what it did
    chat,          \* the children of #aiMessages appended by addChatMessage
    requests,      \* the messages whose fetch in callOpenAI is pending
    replyTimers,   \* pending setTimeout callbacks of processAiMessage, in order
    dueCheck       \* the latest call of getDueStatus: its inputs and result

\* what the store handlers never touch: the assistant panel and the due check
panelVars == <<chat, requests, replyTimers, dueCheck>>

vars == <<defaultData, state, persisted, storageFull, currentPage, inboxBadge,
          timers, nextId, last, chat, requests, replyTimers, dueCheck>>

----------------------------------------------------------------------------
(* Bounds *)

\* generateId is called at most MaxIds times in a run
MaxIds == 1

----------------------------------------------------------------------------
(* JSON values *)

Collections == {"inbox", "projects", "tasks", "ideas", "contacts"}
Keys == Collections \cup {"settings"}

\* a top-level value of a document: a list, a number (any non-list), or no key
List(items) == [kind |-> "list", items |-> items]
NotAList == [kind |-> "num", items |-> <<>>]
Absent == [kind |-> "absent", items |-> <<>>]

\* a settings object; a field the object lacks reads "missing" (undefined)
Settings(darkMode, apiKey) == [kind |-> "obj", darkMode |-> darkMode, apiKey |-> apiKey]
AbsentSettings == [kind |-> "absent", darkMode |-> "missing", apiKey |-> "missing"]

AbsentOf(k) == IF k = "settings" THEN AbsentSettings ELSE Absent

\* timestamps: a field that is undefined, null, or an ISO time
Undefined == [kind |-> "undefined", t |-> 0]
Null == [kind |-> "null", t |-> 0]
Time(t) == [kind |-> "time", t |-> t]

----------------------------------------------------------------------------
(* Texts: strings as sequences of characters *)

UpperAlpha == <<"A","B","C","D","E","F","G","H","I","J","K","L","M",
                "N","O","P","Q","R","S","T","U","V","W","X","Y","Z">>
LowerAlpha == <<"a","b","c","d","e","f","g","h","i","j","k","l","m",
                "n","o","p","q","r","s","t","u","v","w","x","y","z">>

LowerChar(c) ==
    IF \E i \in 1..Len(UpperAlpha) : UpperAlpha[i] = c
    THEN LowerAlpha[CHOOSE i \in 1..Len(UpperAlpha) : UpperAlpha[i] = c]
    ELSE c

toLowerCase(s) == [i \in 1..Len(s) |-> LowerChar(s[i])]

includes(s, pat) ==
    \E i \in 0..(Len(s) - Len(pat)) : SubSeq(s, i + 1, i + Len(pat)) = pat

TaskMarkers == { <<"t","a","s","k",":">>, <<"t","o","d","o",":">>,
                 <<"n","e","e","d"," ","t","o">>, <<"m","u","s","t">>,
                 <<"s","h","o","u","l","d">> }
IdeaMarkers == { <<"i","d","e","a",":">>, <<"w","h","a","t"," ","i","f">>,
                 <<"m","a","y","b","e">>, <<"c","o","u","l","d">> }
LinkMarkers == { <<"h","t","t","p",":","/","/">>, <<"h","t","t","p","s",":","/","/">>,
                 <<".","c","o","m">>, <<".","o","r","g">> }

SummaryThreshold == 50
SummaryPrefix == 47
Ellipsis == <<".", ".", ".">>

\* the texts a user types (already trimmed); <<>> is an empty input
TextMust == <<"M","u","s","t">>
TextOk == <<"o","k">>
Texts == {TextMust, TextOk}
NoText == <<>>

Types == {"thought", "note"}
ApiKeys == {"", "sk"}
\* the pages the user navigates to (of the six the router knows)
Pages == {"dashboard", "inbox", "tasks"}

----------------------------------------------------------------------------
(* Documents: what JSON.parse yields for a persisted blob or an imported   *)
(* file.  A blob is missing (getItem returns null), unparsable, or a       *)
(* document with some of the six top-level keys.                           *)

defaultDataLiteral ==
    [inbox |-> List(<<>>), projects |-> List(<<>>), tasks |-> List(<<>>),
     ideas |-> List(<<>>), contacts |-> List(<<>>),
     settings |-> Settings("true", "")]

\* the task literal with a wrong default priority
NewTask_HighPriority(id, text, t) ==
    [id |-> id, text |-> text, completed |-> FALSE, priority |-> "high",
     dueDate |-> "null", project |-> "null", context |-> <<>>,
     createdAt |-> t, completedAt |-> Undefined]

NewTask(id, text, t) ==
    [id |-> id, text |-> text, completed |-> FALSE, priority |-> "medium",
     dueDate |-> "null", project |-> "null", context |-> <<>>,
     createdAt |-> t, completedAt |-> Undefined]

\* the idea literal with a wrong default potential
NewIdea_Potential(id, text, t) ==
    [id |-> id, text |-> text, category |-> "general", potential |-> 1,
     status |-> "new", createdAt |-> t]

NewIdea(id, text, t) ==
    [id |-> id, text |-> text, category |-> "general", potential |-> 2,
     status |-> "new", createdAt |-> t]

NewInboxItem(id, text, type, t) ==
    [id |-> id, text |-> text, type |-> type, status |-> "new",
     createdAt |-> t, aiSummary |-> <<>>]

NewProject(id, name, t) ==
    [id |-> id, name |-> name, description |-> <<>>, status |-> "active",
     progress |-> 0, tasks |-> 0, createdAt |-> t]

NewContact(id, name, t) ==
    [id |-> id, name |-> name, company |-> <<>>, relationship |-> "network",
     email |-> <<>>, phone |-> <<>>, lastContact |-> "null",
     nextFollowUp |-> "null", notes |-> <<>>, createdAt |-> t]

EmptyDoc == [k \in Keys |-> AbsentOf(k)]

\* a backup written by an earlier session, with a record of that session
BackupDoc ==
    [inbox |-> List(<<NewInboxItem(101, TextOk, "thought", 0)>>),
     projects |-> List(<<>>),
     tasks |-> List(<<>>),
     ideas |-> List(<<>>),
     contacts |-> List(<<>>),
     settings |-> Settings("true", "sk")]

\* {"tasks": 5}
BadTasksDoc == [EmptyDoc EXCEPT !["tasks"] = NotAList]

\* {"settings": {}}
PartialSettingsDoc == [EmptyDoc EXCEPT !["settings"] = Settings("missing", "missing")]

Blob(kind, doc) == [kind |-> kind, doc |-> doc]

File(name) ==
    CASE name = "missing" -> Blob("missing", EmptyDoc)
      [] name = "corrupt" -> Blob("corrupt", EmptyDoc)
      [] name = "empty" -> Blob("doc", EmptyDoc)
      [] name = "backup" -> Blob("doc", BackupDoc)
      [] name = "badTasks" -> Blob("doc", BadTasksDoc)
      [] name = "partialSettings" -> Blob("doc", PartialSettingsDoc)

\* documents of the shape section 6 of the specification describes
ShapedFiles == {"empty", "backup"}
\* documents that parse but break that shape
MisshapenFiles == {"badTasks", "partialSettings"}

----------------------------------------------------------------------------
(* The object graph: h.state and h.defaultData                             *)

Heap == [state |-> state, defaultData |-> defaultData]

\* state.k
Get(h, k) ==
    IF h.state.ref[k] = "default" THEN h.defaultData[k] ELSE h.state.own[k]

IsList(h, k) == Get(h, k).kind = "list"

\* state.k.push(r): in place, on whichever array state.k points at
Push(h, k, r) ==
    IF h.state.ref[k] = "default"
    THEN [h EXCEPT !.defaultData[k].items = Append(@, r)]
    ELSE [h EXCEPT !.state.own[k].items = Append(@, r)]

\* state.k = v: when state is defaultData itself the field of defaultData is
\* replaced, otherwise only the copy's field
Assign(h, k, v) ==
    IF h.state.isDefault
    THEN [h EXCEPT !.defaultData[k] = v]
    ELSE [h EXCEPT !.state.ref[k] = "own", !.state.own[k] = v]

\* items.filter(i => i.id !== id)
filter(items, id) == SelectSeq(items, LAMBDA i : i.id # id)

HasId(items, id) == \E i \in 1..Len(items) : items[i].id = id

\* items.find(i => i.id === id), for an id that occurs
find(items, id) == items[CHOOSE i \in 1..Len(items) : items[i].id = id /\ \A j \in 1..(i-1) : items[j].id # id]

\* field assignments on the record object with this id leave it as `rec`; the
\* object is shared by every array that holds it (state.k and, after a filter,
\* defaultData.k)
MutateIn(items, id, rec) ==
    [i \in 1..Len(items) |-> IF items[i].id = id THEN rec ELSE items[i]]

Mutate(h, k, id, rec) ==
    [h EXCEPT !.defaultData[k].items = MutateIn(@, id, rec),
              !.state.own[k].items = MutateIn(@, id, rec)]

\* state.settings.apiKey = key: in place on the settings object
SetApiKey(h, key) ==
    IF h.state.ref["settings"] = "default"
    THEN [h EXCEPT !.defaultData["settings"].apiKey = key]
    ELSE [h EXCEPT !.state.own["settings"].apiKey = key]

\* { ...defaultData, ...data }: a new object; a key of data overrides, any other
\* field is the very value defaultData holds (the same array / settings object)
Spread(h, doc) ==
    [h EXCEPT !.state =
        [isDefault |-> FALSE,
         ref |-> [k \in Keys |-> IF doc[k].kind = "absent" THEN "default" ELSE "own"],
         own |-> doc]]

\* state = defaultData
TheDefault(h) ==
    [h EXCEPT !.state =
        [isDefault |-> TRUE,
         ref |-> [k \in Keys |-> "default"],
         own |-> EmptyDoc]]

\* JSON.stringify(state): the document the store holds, aliases resolved
Serialize(h) == [k \in Keys |-> Get(h, k)]

Store == Serialize(Heap)

----------------------------------------------------------------------------
(* loadData, saveData, generateId                                          *)

\* loadData without its try/catch: the parse error reaches the caller
loadData_NoCatch(h, blob) ==
    [heap |-> IF blob.kind = "doc" THEN Spread(h, blob.doc) ELSE TheDefault(h),
     threw |-> blob.kind = "corrupt"]

\* loadData(): the store for a persisted blob; the try/catch swallows the
\* parse error, so nothing is thrown to the caller
loadData(h, blob) ==
    [heap |-> IF blob.kind = "doc" THEN Spread(h, blob.doc) ELSE TheDefault(h),
     threw |-> FALSE]

\* saveData called before the handler's change instead of after it
saveData_BeforeChange(h) ==
    IF storageFull THEN persisted ELSE Blob("doc", Serialize(Heap))

\* saveData writing even though the storage is full
saveData_IgnoreQuota(h) == Blob("doc", Serialize(h))

\* saveData(state): the content of localStorage afterwards; setItem throws
\* while the storage is full and the catch swallows it
saveData(h) ==
    IF storageFull THEN persisted ELSE Blob("doc", Serialize(h))

WriteResult == IF storageFull THEN "failed" ELSE "ok"

\* generateId returning an id that a record of an earlier session has
generateId_Reused == BackupDoc["inbox"].items[1].id

\* generateId(): Date.now() in base 36 followed by a random base-36 fraction;
\* two calls return the same string only for equal milliseconds and equal
\* random draws, so the model hands out fresh ids
generateId == nextId

\* new Date(): the id generateId returns starts with Date.now(), so the time
\* of a handler is read off the same logical clock as the ids
Clock == nextId

----------------------------------------------------------------------------
(* Rendering: what the view code reads, and when it throws a TypeError     *)

\* updateInboxBadge: the count it displays
BadgeCount(h) ==
    LET items == Get(h, "inbox").items
    IN Cardinality({i \in 1..Len(items) : items[i].status # "done"})

\* pages[page]() throws when it calls an array method on a non-array
RenderThrows(h, page) ==
    CASE page = "dashboard" ->
            ~IsList(h, "tasks") \/ ~IsList(h, "projects") \/ ~IsList(h, "inbox")
      [] page = "inbox" -> ~IsList(h, "inbox")
      [] page = "tasks" -> ~IsList(h, "tasks")
      [] page = "projects" -> ~IsList(h, "projects")
      [] page = "ideas" -> ~IsList(h, "ideas")
      [] page = "contacts" -> ~IsList(h, "contacts")

\* renderInbox ends with updateInboxBadge; no other page touches the badge
BadgeAfterRender(h, page, badge) ==
    IF page = "inbox" /\ ~RenderThrows(h, page) THEN BadgeCount(h) ELSE badge

\* getDueStatus has not been called
NoDueCheck == [called |-> FALSE]

----------------------------------------------------------------------------
(* What a handler leaves behind                                            *)

Outcome(op, id, file, toast, threw, wrote) ==
    [op |-> op, id |-> id, file |-> file, toast |-> toast, threw |-> threw,
     wrote |-> wrote]

\* the handler returned early or threw before touching anything
NoEffect(op, id, file, toast, threw) ==
    /\ last' = Outcome(op, id, file, toast, threw, "none")
    /\ UNCHANGED <<defaultData, state, persisted, storageFull, currentPage,
                   inboxBadge, timers, nextId>>
    /\ UNCHANGED panelVars

\* the handler changed the store to h and called saveData(state)
Saved(h, op, id, file, toast, threw, badge) ==
    /\ state' = h.state
    /\ defaultData' = h.defaultData
    /\ persisted' = saveData(h)
    /\ inboxBadge' = badge
    /\ last' = Outcome(op, id, file, toast, threw, WriteResult)
    /\ UNCHANGED storageFull
    /\ UNCHANGED panelVars

----------------------------------------------------------------------------
(* Start of a session: `let state = loadData()` and init()                 *)

InitWith(files) ==
    \E f \in files :
        LET loaded == loadData([state |-> [isDefault |-> TRUE,
                                           ref |-> [k \in Keys |-> "default"],
                                           own |-> EmptyDoc],
                                defaultData |-> defaultDataLiteral], File(f))
            h == loaded.heap
            \* init(): updateInboxBadge(), then navigateTo('dashboard')
            initThrows == ~IsList(h, "inbox") \/ RenderThrows(h, "dashboard")
        IN
        /\ persisted = File(f)
        /\ defaultData = h.defaultData
        /\ state = h.state
        /\ storageFull = FALSE
        /\ currentPage = "dashboard"
        /\ inboxBadge = IF IsList(h, "inbox") THEN BadgeCount(h) ELSE 0
        /\ timers = <<>>
        /\ nextId = 1
        /\ chat = <<>>
        /\ requests = {}
        /\ replyTimers = <<>>
        /\ dueCheck = NoDueCheck
        /\ last = Outcome("load", 0, f, "", loaded.threw \/ initThrows, "none")

Init == InitWith({"missing", "corrupt"} \cup ShapedFiles)

InitAnyInput == InitWith({"missing", "corrupt"} \cup ShapedFiles \cup MisshapenFiles)

----------------------------------------------------------------------------
(* Inbox                                                                   *)

\* addToInbox without the setTimeout that schedules the classification
addToInbox_NoTimer(text, type) ==
    LET h == Heap
        id == generateId
    IN
    /\ text # NoText
    /\ IsList(h, "inbox")
    /\ nextId <= MaxIds
    /\ LET t == Clock IN
            LET h1 == Push(h, "inbox", NewInboxItem(id, text, type, t))
                renderThrows == currentPage = "dashboard" /\ RenderThrows(h1, "dashboard")
            IN
            /\ Saved(h1, "addToInbox", 0, "none",
                     IF renderThrows THEN "" ELSE "Captured!", renderThrows,
                     IF renderThrows THEN inboxBadge ELSE BadgeCount(h1))
            /\ timers' = timers
    /\ nextId' = nextId + 1
    /\ UNCHANGED currentPage

\* addToInbox(text, type): from the inbox page's input or the capture modal
addToInbox(text, type) ==
    LET h == Heap
        id == generateId
    IN
    /\ text # NoText            \* if (!itemText) return
    /\ IsList(h, "inbox")       \* push on a non-array throws before any effect
    /\ nextId <= MaxIds
    /\ LET t == Clock IN
            LET h1 == Push(h, "inbox", NewInboxItem(id, text, type, t))
                renderThrows == currentPage = "dashboard" /\ RenderThrows(h1, "dashboard")
            IN
            /\ Saved(h1, "addToInbox", 0, "none",
                     IF renderThrows THEN "" ELSE "Captured!", renderThrows,
                     IF renderThrows THEN inboxBadge ELSE BadgeCount(h1))
            /\ timers' = IF renderThrows THEN timers ELSE Append(timers, id)
    /\ nextId' = nextId + 1
    /\ UNCHANGED currentPage

\* the classifier testing the idea markers before the task markers
classify_IdeaFirst(item) ==
    LET text == toLowerCase(item.text)
        type == IF \E m \in IdeaMarkers : includes(text, m) THEN "idea"
                ELSE IF \E m \in TaskMarkers : includes(text, m) THEN "task"
                ELSE IF \E m \in LinkMarkers : includes(text, m) THEN "link"
                ELSE item.type
        summary == IF Len(item.text) > SummaryThreshold
                   THEN SubSeq(item.text, 1, SummaryPrefix) \o Ellipsis
                   ELSE item.aiSummary
    IN [item EXCEPT !.type = type, !.aiSummary = summary]

\* the classifier summarising texts of 50 characters too
classify_SummaryAt50(item) ==
    LET text == toLowerCase(item.text)
        type == IF \E m \in TaskMarkers : includes(text, m) THEN "task"
                ELSE IF \E m \in IdeaMarkers : includes(text, m) THEN "idea"
                ELSE IF \E m \in LinkMarkers : includes(text, m) THEN "link"
                ELSE item.type
        summary == IF Len(item.text) >= SummaryThreshold
                   THEN SubSeq(item.text, 1, SummaryPrefix) \o Ellipsis
                   ELSE item.aiSummary
    IN [item EXCEPT !.type = type, !.aiSummary = summary]

\* the classifier appending to the summary instead of assigning it
classify_AppendSummary(item) ==
    LET text == toLowerCase(item.text)
        type == IF \E m \in TaskMarkers : includes(text, m) THEN "task"
                ELSE IF \E m \in IdeaMarkers : includes(text, m) THEN "idea"
                ELSE IF \E m \in LinkMarkers : includes(text, m) THEN "link"
                ELSE item.type
        summary == IF Len(item.text) > SummaryThreshold
                   THEN item.aiSummary \o SubSeq(item.text, 1, SummaryPrefix) \o Ellipsis
                   ELSE item.aiSummary
    IN [item EXCEPT !.type = type, !.aiSummary = summary]

\* the type and summary classifyInboxItem assigns to an item
classify(item) ==
    LET text == toLowerCase(item.text)
        type == IF \E m \in TaskMarkers : includes(text, m) THEN "task"
                ELSE IF \E m \in IdeaMarkers : includes(text, m) THEN "idea"
                ELSE IF \E m \in LinkMarkers : includes(text, m) THEN "link"
                ELSE item.type
        summary == IF Len(item.text) > SummaryThreshold
                   THEN SubSeq(item.text, 1, SummaryPrefix) \o Ellipsis
                   ELSE item.aiSummary
    IN [item EXCEPT !.type = type, !.aiSummary = summary]

\* classifyInboxItem(id): what one call does
classifyInboxItemCall(op, id) ==
    LET h == Heap
    IN
    IF ~IsList(h, "inbox")
    THEN /\ last' = Outcome(op, id, "none", "", TRUE, "none")
         /\ UNCHANGED <<defaultData, state, persisted, storageFull, inboxBadge>>
         /\ UNCHANGED panelVars
    ELSE IF ~HasId(Get(h, "inbox").items, id)
    THEN /\ last' = Outcome(op, id, "none", "", FALSE, "none")
         /\ UNCHANGED <<defaultData, state, persisted, storageFull, inboxBadge>>
         /\ UNCHANGED panelVars
    ELSE LET h1 == Mutate(h, "inbox", id, classify(find(Get(h, "inbox").items, id)))
         IN Saved(h1, op, id, "none", "", FALSE,
                  IF currentPage = "inbox" THEN BadgeCount(h1) ELSE inboxBadge)

\* the timer set by addToInbox fires: classifyInboxItem(id)
classifyInboxItem ==
    /\ timers # <<>>
    /\ timers' = Tail(timers)
    /\ UNCHANGED <<currentPage, nextId>>
    /\ classifyInboxItemCall("classifyInboxItem", Head(timers))

\* classifyInboxItem(id) applied once more to an item of the inbox
reclassify(id) ==
    /\ UNCHANGED <<timers, currentPage, nextId>>
    /\ classifyInboxItemCall("reclassify", id)

convertInboxToTask(id) ==
    LET h == Heap
    IN
    IF ~IsList(h, "inbox") THEN NoEffect("convertInboxToTask", id, "none", "", TRUE)
    ELSE IF ~HasId(Get(h, "inbox").items, id)
    THEN NoEffect("convertInboxToTask", id, "none", "", FALSE)
    ELSE IF ~IsList(h, "tasks") THEN NoEffect("convertInboxToTask", id, "none", "", TRUE)
    ELSE
        /\ nextId <= MaxIds
        /\ LET t == Clock IN
            LET item == find(Get(h, "inbox").items, id)
                h1 == Push(h, "tasks", NewTask(generateId, item.text, t))
                h2 == Assign(h1, "inbox",
                             List(filter(Get(h1, "inbox").items, id)))
            IN
            /\ Saved(h2, "convertInboxToTask", id, "none", "Converted to task!",
                     FALSE, BadgeCount(h2))
        /\ nextId' = nextId + 1
        /\ UNCHANGED <<currentPage, timers>>

\* convertInboxToIdea without `if (!item) return`, removing and saving anyway
convertInboxToIdea_NoGuard(id) ==
    LET h == Heap
        h1 == Assign(h, "inbox",
                     List(filter(Get(h, "inbox").items, id)))
    IN
    /\ IsList(h, "inbox")
    /\ Saved(h1, "convertInboxToIdea", id, "none", "Converted to idea!", FALSE,
             BadgeCount(h1))
    /\ UNCHANGED <<currentPage, timers, nextId>>

convertInboxToIdea(id) ==
    LET h == Heap
    IN
    IF ~IsList(h, "inbox") THEN NoEffect("convertInboxToIdea", id, "none", "", TRUE)
    ELSE IF ~HasId(Get(h, "inbox").items, id)
    THEN NoEffect("convertInboxToIdea", id, "none", "", FALSE)
    ELSE IF ~IsList(h, "ideas") THEN NoEffect("convertInboxToIdea", id, "none", "", TRUE)
    ELSE
        /\ nextId <= MaxIds
        /\ LET t == Clock IN
            LET item == find(Get(h, "inbox").items, id)
                h1 == Push(h, "ideas", NewIdea(generateId, item.text, t))
                h2 == Assign(h1, "inbox",
                             List(filter(Get(h1, "inbox").items, id)))
            IN
            /\ Saved(h2, "convertInboxToIdea", id, "none", "Converted to idea!",
                     FALSE, BadgeCount(h2))
        /\ nextId' = nextId + 1
        /\ UNCHANGED <<currentPage, timers>>

deleteInboxItem(id) ==
    LET h == Heap
    IN
    /\ IsList(h, "inbox")       \* filter on a non-array throws
    /\  LET h1 == Assign(h, "inbox",
                         List(filter(Get(h, "inbox").items, id)))
        IN
        /\ Saved(h1, "deleteInboxItem", 0, "none", "Deleted", FALSE, BadgeCount(h1))
        /\ UNCHANGED <<currentPage, timers, nextId>>

----------------------------------------------------------------------------
(* Tasks                                                                   *)

\* addQuickTask(): reads #quickTaskInput, which exists only while the tasks
\* markup is displayed; without it `input.value` throws
addQuickTask(text, inputShown) ==
    LET h == Heap
    IN
    /\ inputShown               \* input.value on a missing element throws
    /\ text # NoText            \* if (!text) return
    /\ IsList(h, "tasks")       \* push on a non-array throws before any effect
    /\ nextId <= MaxIds
    /\ Saved(Push(h, "tasks", NewTask(generateId, text, Clock)), "addQuickTask",
             0, "none", "Task added!", FALSE, inboxBadge)
    /\ nextId' = nextId + 1
    /\ UNCHANGED <<currentPage, timers>>

\* showAddTaskModal(): prompt('Enter task:') returns a text or nothing
showAddTaskModal(text) ==
    LET h == Heap
    IN
    /\ text # NoText            \* if (text && text.trim())
    /\ IsList(h, "tasks")       \* push on a non-array throws before any effect
    /\ nextId <= MaxIds
    /\ Saved(Push(h, "tasks", NewTask(generateId, text, Clock)), "showAddTaskModal",
             0, "none", "Task added!", FALSE, inboxBadge)
    /\ nextId' = nextId + 1
    /\ UNCHANGED <<currentPage, timers>>

\* toggleTask keeping the timestamp when the task is reopened
toggleTask_KeepCompletedAt(id) ==
    LET h == Heap
    IN
    /\ IsList(h, "tasks")
    /\ HasId(Get(h, "tasks").items, id)
    /\  LET t == Clock IN
            LET task == find(Get(h, "tasks").items, id)
                completed == ~task.completed
                h1 == Mutate(h, "tasks", id,
                             [task EXCEPT
                                 !.completed = completed,
                                 !.completedAt = IF completed THEN Time(t) ELSE @])
                renderThrows ==
                    RenderThrows(h1, IF currentPage = "tasks" THEN "tasks" ELSE "dashboard")
            IN
            /\ Saved(h1, "toggleTask", 0, "none",
                     IF completed /\ ~renderThrows THEN "Task completed!" ELSE "",
                     renderThrows, inboxBadge)
            /\ UNCHANGED <<currentPage, timers, nextId>>

toggleTask(id) ==
    LET h == Heap
    IN
    /\ IsList(h, "tasks")                  \* find on a non-array throws
    /\ HasId(Get(h, "tasks").items, id)    \* if (task)
    /\  LET t == Clock IN
            LET task == find(Get(h, "tasks").items, id)
                completed == ~task.completed
                h1 == Mutate(h, "tasks", id,
                             [task EXCEPT
                                 !.completed = completed,
                                 !.completedAt = IF completed THEN Time(t) ELSE Null])
                renderThrows ==
                    RenderThrows(h1, IF currentPage = "tasks" THEN "tasks" ELSE "dashboard")
            IN
            /\ Saved(h1, "toggleTask", 0, "none",
                     IF completed /\ ~renderThrows THEN "Task completed!" ELSE "",
                     renderThrows, inboxBadge)
            /\ UNCHANGED <<currentPage, timers, nextId>>

deleteTask(id) ==
    LET h == Heap
    IN
    /\ IsList(h, "tasks")       \* filter on a non-array throws
    /\  LET h1 == Assign(h, "tasks",
                         List(filter(Get(h, "tasks").items, id)))
        IN
        /\ Saved(h1, "deleteTask", 0, "none", "Task deleted", FALSE, inboxBadge)
        /\ UNCHANGED <<currentPage, timers, nextId>>

\* editTask(id): prompt('Edit task:') returns the new text or nothing
editTask(id, newText) ==
    LET h == Heap
    IN
    /\ IsList(h, "tasks")                  \* find on a non-array throws
    /\ HasId(Get(h, "tasks").items, id)    \* if (!task) return
    /\ newText # NoText                    \* if (newText && newText.trim())
    /\  LET task == find(Get(h, "tasks").items, id)
            h1 == Mutate(h, "tasks", id, [task EXCEPT !.text = newText])
        IN
        /\ Saved(h1, "editTask", 0, "none", "Task updated!", FALSE, inboxBadge)
        /\ UNCHANGED <<currentPage, timers, nextId>>

----------------------------------------------------------------------------
(* Projects, ideas, contacts                                               *)

\* a handler that prompts for a text and pushes the new record onto state.k
AddRecord(op, k, text, toast, rec) ==
    LET h == Heap
    IN
    /\ text # NoText            \* if (!text || !text.trim()) return
    /\ IsList(h, k)             \* push on a non-array throws before any effect
    /\ nextId <= MaxIds
    /\ Saved(Push(h, k, rec), op, 0, "none", toast, FALSE,
             inboxBadge)
    /\ nextId' = nextId + 1
    /\ UNCHANGED <<currentPage, timers>>

addProject(name) ==
    AddRecord("addProject", "projects", name, "Project created!",
              NewProject(generateId, name, Clock))

addIdea(text) ==
    AddRecord("addIdea", "ideas", text, "Idea captured!",
              NewIdea(generateId, text, Clock))

addContact(name) ==
    AddRecord("addContact", "contacts", name, "Contact added!",
              NewContact(generateId, name, Clock))

deleteIdea(id) ==
    LET h == Heap
    IN
    /\ IsList(h, "ideas")       \* filter on a non-array throws
    /\  LET h1 == Assign(h, "ideas",
                         List(filter(Get(h, "ideas").items, id)))
        IN
        /\ Saved(h1, "deleteIdea", 0, "none", "Idea deleted", FALSE, inboxBadge)
        /\ UNCHANGED <<currentPage, timers, nextId>>

----------------------------------------------------------------------------
(* Settings panel, navigation, environment                                 *)

\* click on #saveApiKey
saveApiKey(key) ==
    /\ Saved(SetApiKey(Heap, key), "saveApiKey", 0, "none", "API key saved!", FALSE,
             inboxBadge)
    /\ UNCHANGED <<currentPage, timers, nextId>>

\* the import handler replacing the store before it knows the file parses
importData_ReplaceFirst(f) ==
    LET h1 == Spread(Heap, File(f).doc)
    IN
    /\ Saved(h1, "import", 0, f,
             IF File(f).kind # "doc" \/ RenderThrows(h1, "dashboard")
             THEN "Invalid file format" ELSE "Data imported!",
             FALSE, inboxBadge)
    /\ currentPage' = "dashboard"
    /\ UNCHANGED <<timers, nextId>>

\* reader.onload of the import handler, for a file with this content
importData(f) ==
    LET h == Heap
        blob == File(f)
    IN
    IF blob.kind # "doc"
    THEN NoEffect("import", 0, f, "Invalid file format", FALSE)
    ELSE
        LET h1 == Spread(h, blob.doc)
            \* navigateTo('dashboard') is inside the try block
            renderThrows == RenderThrows(h1, "dashboard")
        IN
        /\ Saved(h1, "import", 0, f,
                 IF renderThrows THEN "Invalid file format" ELSE "Data imported!",
                 FALSE, inboxBadge)
        /\ currentPage' = "dashboard"
        /\ UNCHANGED <<timers, nextId>>

\* click on #clearData; confirm() answers
clearData(confirmed) ==
    /\ confirmed                \* if (confirm(..))
    /\  LET h1 == Spread(Heap, EmptyDoc)
            renderThrows == RenderThrows(h1, "dashboard")
        IN
        /\ Saved(h1, "clear", 0, "none",
                 IF renderThrows THEN "" ELSE "All data cleared", renderThrows,
                 inboxBadge)
        /\ currentPage' = "dashboard"
        /\ UNCHANGED <<timers, nextId>>

navigateTo(page) ==
    /\ currentPage' = page
    /\ inboxBadge' = BadgeAfterRender(Heap, page, inboxBadge)
    /\ last' = Outcome("navigateTo", 0, "none", "", RenderThrows(Heap, page), "none")
    /\ UNCHANGED <<defaultData, state, persisted, storageFull, timers, nextId>>
    /\ UNCHANGED panelVars

\* the browser's storage fills up or is freed
StorageChange ==
    /\ storageFull' = ~storageFull
    /\ last' = Outcome("storage", 0, "none", "", FALSE, "none")
    /\ UNCHANGED <<defaultData, state, persisted, currentPage, inboxBadge, timers,
                   nextId>>
    /\ UNCHANGED panelVars

----------------------------------------------------------------------------
(* Specifications                                                          *)

\* the ids of the records of state.k: the ids its rendered buttons carry
IdsOf(k) ==
    LET items == Get(Heap, k).items IN {items[i].id : i \in 1..Len(items)}

\* conversions are also called with an id that is not in the inbox; the
\* other handlers are called from the button rendered for a record
Handlers ==
    \/ \E text \in Texts \cup {NoText}, type \in Types : addToInbox(text, type)
    \/ classifyInboxItem
    \/ \E id \in IdsOf("inbox") \cup {0} : convertInboxToTask(id)
    \/ \E id \in IdsOf("inbox") \cup {0} : convertInboxToIdea(id)
    \/ \E id \in IdsOf("inbox") : deleteInboxItem(id)
    \/ \E text \in {TextOk, NoText}, shown \in BOOLEAN : addQuickTask(text, shown)
    \/ \E text \in {TextOk, NoText} : showAddTaskModal(text)
    \/ \E id \in IdsOf("tasks") : toggleTask(id)
    \/ \E id \in IdsOf("tasks") : deleteTask(id)
    \/ \E id \in IdsOf("tasks"), text \in {TextMust, NoText} : editTask(id, text)
    \/ \E name \in {TextOk, NoText} : addProject(name)
    \/ \E text \in {TextOk, NoText} : addIdea(text)
    \/ \E name \in {TextOk, NoText} : addContact(name)
    \/ \E id \in IdsOf("ideas") : deleteIdea(id)
    \/ \E key \in ApiKeys : saveApiKey(key)
    \/ \E confirmed \in BOOLEAN : clearData(confirmed)
    \/ \E page \in Pages : navigateTo(page)

\* sessions whose persisted blob and imported files have the documented
\* shape (or do not parse)
Next ==
    \/ Handlers
    \/ \E f \in {"corrupt"} \cup ShapedFiles : importData(f)

Spec == Init /\ [][Next]_vars

\* sessions whose persisted blob and imported files are any of the files
NextAnyInput ==
    \/ Handlers
    \/ \E f \in {"corrupt"} \cup ShapedFiles \cup MisshapenFiles : importData(f)

SpecAnyInput == InitAnyInput /\ [][NextAnyInput]_vars

\* sessions in which the storage quota is reached and freed again
NextQuota ==
    \/ \E text \in {TextOk, NoText} : addToInbox(text, "thought")
    \/ classifyInboxItem
    \/ \E id \in IdsOf("inbox") : convertInboxToTask(id)
    \/ \E id \in IdsOf("inbox") : deleteInboxItem(id)
    \/ \E text \in {TextOk, NoText} : showAddTaskModal(text)
    \/ \E id \in IdsOf("tasks") : toggleTask(id)
    \/ \E id \in IdsOf("tasks") : deleteTask(id)
    \/ \E key \in ApiKeys : saveApiKey(key)
    \/ \E confirmed \in BOOLEAN : clearData(confirmed)
    \/ StorageChange

SpecQuota == InitWith({"missing", "backup"}) /\ [][NextQuota]_vars

----------------------------------------------------------------------------
(* The classifier on its own: one captured item, any text, any type        *)

\* a captured text is made of at most MaxWords words
MaxWords == 2

\* words with a task marker, an idea marker, a link marker (in either case)
\* and without a marker
Words ==
    { TextMust, <<"m","a","y","b","e">>, <<".","C","O","M">>, TextOk }

RECURSIVE Concat(_)
Concat(ws) == IF ws = <<>> THEN <<>> ELSE Head(ws) \o Concat(Tail(ws))

Phrases == UNION { {Concat(ws) : ws \in [1..n -> Words]} : n \in 1..MaxWords }

\* the text followed by filler up to n characters
PadTo(text, n) == text \o [i \in 1..(n - Len(text)) |-> "x"]

\* each phrase as it is, and filled up to the summary threshold and one more
ClassifyTexts ==
    { PadTo(w, n) : w \in Phrases,
                   n \in {0, SummaryThreshold, SummaryThreshold + 1} }

\* the types of the capture modal's buttons
CaptureTypes == Types \cup {"idea"}

\* the session right after addToInbox(text, type) on an empty store
InitClassify ==
    \E text \in ClassifyTexts, type \in CaptureTypes, page \in {"dashboard", "inbox"} :
        LET h == Push([state |-> [isDefault |-> TRUE,
                                  ref |-> [k \in Keys |-> "default"],
                                  own |-> EmptyDoc],
                       defaultData |-> defaultDataLiteral],
                      "inbox", NewInboxItem(1, text, type, 1))
        IN
        /\ defaultData = h.defaultData
        /\ state = h.state
        /\ persisted = Blob("doc", Serialize(h))
        /\ storageFull = FALSE
        /\ currentPage = page
        /\ inboxBadge = 1
        /\ timers = <<1>>
        /\ nextId = 2
        /\ last = Outcome("addToInbox", 0, "none", "Captured!", FALSE, "ok")
        /\ chat = <<>>
        /\ requests = {}
        /\ replyTimers = <<>>
        /\ dueCheck = NoDueCheck

NextClassify ==
    \/ classifyInboxItem
    \/ \E id \in IdsOf("inbox") : last.op # "addToInbox" /\ reclassify(id)

SpecClassify == InitClassify /\ [][NextClassify]_vars

----------------------------------------------------------------------------
(* getDueStatus on its own.  Time is counted in hours since the epoch      *)
(* (UTC); the local time zone is a fixed offset in hours.                  *)

\* calendar days 0..MaxDay
MaxDay == 2

HoursPerDay == 24
\* times of day: midnight, noon, the last hour
DayHours == {0, 12, 23}
\* offsets of local time from UTC: west of Greenwich, Greenwich, east
TimeZones == {-5, 0, 5}

\* what a task's dueDate holds: null, a date-only string (YYYY-MM-DD), a
\* date-time string without offset (YYYY-MM-DDTHH:00), a date-time string
\* in UTC as toISOString writes it (YYYY-MM-DDTHH:00Z), or no date at all
DueDates ==
    {[form |-> "null", day |-> 0, hour |-> 0], [form |-> "invalid", day |-> 0, hour |-> 0]}
    \cup {[form |-> "date", day |-> d, hour |-> 0] : d \in 0..MaxDay}
    \cup {[form |-> f, day |-> d, hour |-> h] :
             f \in {"local", "utc"}, d \in 0..MaxDay, h \in DayHours}

\* new Date(string).getTime(): a date-only string is UTC midnight, a
\* date-time string without offset is local time
DateParse(v, tz) ==
    CASE v.form = "date" -> v.day * HoursPerDay
      [] v.form = "local" -> v.day * HoursPerDay + v.hour - tz
      [] v.form = "utc" -> v.day * HoursPerDay + v.hour

\* the local calendar day an instant falls on
LocalDay(t, tz) == (t + tz) \div HoursPerDay

\* date.setHours(0, 0, 0, 0): midnight, local time, of the instant's day
setHoursMidnight(t, tz) == LocalDay(t, tz) * HoursPerDay - tz

\* getDueStatus(dueDate) called at instant `now` in time zone tz
getDueStatus(dueDate, now, tz) ==
    IF dueDate.form = "null" THEN ""                \* if (!dueDate) return ''
    ELSE IF dueDate.form = "invalid" THEN ""        \* NaN < 0 and NaN === 0 are false
    ELSE LET due == setHoursMidnight(DateParse(dueDate, tz), tz)
             today == setHoursMidnight(now, tz)
             diff == due - today
         IN IF diff < 0 THEN "overdue"
            ELSE IF diff = 0 THEN "today"
            ELSE ""

\* a render evaluates getDueStatus(task.dueDate) while the local clock shows
\* hour nowHour of day nowDay
checkDue(dueDate, nowDay, nowHour, tz) ==
    LET now == nowDay * HoursPerDay + nowHour - tz
    IN
    /\ dueCheck' = [called |-> TRUE, dueDate |-> dueDate, today |-> nowDay,
                    hour |-> nowHour, tz |-> tz,
                    status |-> getDueStatus(dueDate, now, tz)]
    /\ UNCHANGED <<defaultData, state, persisted, storageFull, currentPage,
                   inboxBadge, timers, nextId, last, chat, requests, replyTimers>>

NextDueStatus ==
    \E dueDate \in DueDates, nowDay \in 0..MaxDay, nowHour \in DayHours, tz \in TimeZones :
        checkDue(dueDate, nowDay, nowHour, tz)

SpecDueStatus == InitWith({"missing"}) /\ [][NextDueStatus]_vars

----------------------------------------------------------------------------
(* The assistant panel.  A chat entry is a child of #aiMessages: the n-th  *)
(* user message, or the reply to it, remote or simulated.                  *)

\* at most MaxMessages messages are sent to the assistant
MaxMessages == 2

\* what the user types into #aiInput (trimmed); "" is an empty input
AiMessages == {"", "hello"}
\* the prompts of the quick-action buttons
QuickActionPrompts == {"Help me prioritize my tasks"}

\* how the fetch of callOpenAI ends
RequestOutcomes == {"success", "networkFailure", "errorPayload", "noChoices"}

UserMessage(n) == [role |-> "user", msg |-> n, source |-> "user"]
Reply(n, source) == [role |-> "assistant", msg |-> n, source |-> source]

\* the number of user messages in the conversation
UserCount == Cardinality({i \in 1..Len(chat) : chat[i].role = "user"})

\* addChatMessage putting a reply before the replies to later messages
addChatMessage_SendOrder(c, entry) ==
    LET later == {i \in 1..Len(c) : c[i].role = "assistant" /\ c[i].msg > entry.msg}
    IN IF entry.role = "user" \/ later = {}
       THEN Append(c, entry)
       ELSE LET at == CHOOSE i \in later : \A k \in later : i <= k
            IN SubSeq(c, 1, at - 1) \o <<entry>> \o SubSeq(c, at, Len(c))

\* addChatMessage(text, role): container.appendChild(div)
addChatMessage(c, entry) == Append(c, entry)

\* getSimulatedResponse(message) throws when it filters a non-array: the
\* 'prioritize' branch calls state.tasks.filter
SimulatedThrows(h, message) ==
    message \in QuickActionPrompts /\ ~IsList(h, "tasks")

\* processAiMessage calling the remote service whatever the key
HasApiKey_Always(h) == Get(h, "settings").kind = "obj"

\* if (state.settings.apiKey)
HasApiKey(h) == Get(h, "settings").apiKey \notin {"", "missing"}

\* processAiMessage returning after a failed request instead of falling
\* through to the simulated response
SimulatedFallback_OnlyWithoutKey(op, n, message, outcome) ==
    /\ replyTimers' = IF outcome = "none" THEN Append(replyTimers, n) ELSE replyTimers
    /\ last' = [op |-> op, id |-> n, file |-> "none", toast |-> "", threw |-> FALSE,
                wrote |-> "none", outcome |-> outcome]

\* the tail of processAiMessage: getSimulatedResponse(message), then
\* setTimeout(() => addChatMessage(responses, 'assistant'), 500)
SimulatedFallback(op, n, message, outcome) ==
    LET threw == SimulatedThrows(Heap, message)
    IN
    /\ replyTimers' = IF threw THEN replyTimers ELSE Append(replyTimers, n)
    /\ last' = [op |-> op, id |-> n, file |-> "none", toast |-> "", threw |-> threw,
                wrote |-> "none", outcome |-> outcome]

\* processAiMessage(message) up to its first await: with an API key fetch is
\* called, without one the simulated response is scheduled
processAiMessage(op, n, message) ==
    IF HasApiKey(Heap)
    THEN /\ requests' = requests \cup {[msg |-> n, message |-> message]}
         /\ replyTimers' = replyTimers
         /\ last' = [op |-> op, id |-> n, file |-> "none", toast |-> "",
                     threw |-> FALSE, wrote |-> "none", outcome |-> "pending"]
    ELSE /\ requests' = requests
         /\ SimulatedFallback(op, n, message, "none")

\* click on #aiSend or Enter in #aiInput
sendAiMessage(message) ==
    /\ message # ""             \* if (!message) return
    /\ UserCount < MaxMessages
    /\ chat' = addChatMessage(chat, UserMessage(UserCount + 1))
    /\ processAiMessage("sendAiMessage", UserCount + 1, message)
    /\ UNCHANGED <<defaultData, state, persisted, storageFull, currentPage,
                   inboxBadge, timers, nextId, dueCheck>>

\* click on a quick-action button
handleQuickAction(message) ==
    /\ UserCount < MaxMessages
    /\ chat' = addChatMessage(chat, UserMessage(UserCount + 1))
    /\ processAiMessage("handleQuickAction", UserCount + 1, message)
    /\ UNCHANGED <<defaultData, state, persisted, storageFull, currentPage,
                   inboxBadge, timers, nextId, dueCheck>>

\* the fetch of callOpenAI for request r settles and processAiMessage goes
\* on: the answer is appended, or the catch falls through to the simulated
\* response
requestCompletes(r, outcome) ==
    /\ r \in requests
    /\ requests' = requests \ {r}
    /\ IF outcome = "success"
       THEN /\ chat' = addChatMessage(chat, Reply(r.msg, "remote"))
            /\ replyTimers' = replyTimers
            /\ last' = [op |-> "callOpenAI", id |-> r.msg, file |-> "none",
                        toast |-> "", threw |-> FALSE, wrote |-> "none",
                        outcome |-> outcome]
       ELSE /\ chat' = chat
            /\ SimulatedFallback("callOpenAI", r.msg, r.message, outcome)
    /\ UNCHANGED <<defaultData, state, persisted, storageFull, currentPage,
                   inboxBadge, timers, nextId, dueCheck>>

\* the timer set by processAiMessage fires
replyTimerFires ==
    /\ replyTimers # <<>>
    /\ chat' = addChatMessage(chat, Reply(Head(replyTimers), "simulated"))
    /\ replyTimers' = Tail(replyTimers)
    /\ last' = [op |-> "replyTimer", id |-> Head(replyTimers), file |-> "none",
                toast |-> "", threw |-> FALSE, wrote |-> "none", outcome |-> "none"]
    /\ UNCHANGED <<defaultData, state, persisted, storageFull, currentPage,
                   inboxBadge, timers, nextId, requests, dueCheck>>

SomeRequestCompletes ==
    \E r \in requests, outcome \in RequestOutcomes : requestCompletes(r, outcome)

NextAssistant ==
    \/ \E key \in ApiKeys : saveApiKey(key)
    \/ \E message \in AiMessages : sendAiMessage(message)
    \/ \E message \in QuickActionPrompts : handleQuickAction(message)
    \/ SomeRequestCompletes
    \/ replyTimerFires

\* every pending fetch settles and every timer fires
SpecAssistant ==
    /\ InitWith({"missing", "backup"})
    /\ [][NextAssistant]_vars
    /\ WF_vars(SomeRequestCompletes)
    /\ WF_vars(replyTimerFires)

----------------------------------------------------------------------------
(* The inbox pipeline with its timers: setTimeout callbacks do fire        *)

NextInbox ==
    \/ \E text \in Texts \cup {NoText}, type \in Types : addToInbox(text, type)
    \/ classifyInboxItem
    \/ \E id \in IdsOf("inbox") : convertInboxToTask(id)
    \/ \E id \in IdsOf("inbox") : convertInboxToIdea(id)
    \/ \E id \in IdsOf("inbox") : deleteInboxItem(id)
    \/ \E confirmed \in BOOLEAN : clearData(confirmed)
    \/ \E f \in {"backup"} : importData(f)

\* a pending timer is run by the event loop
SpecInboxTimers ==
    /\ InitWith({"missing", "backup"})
    /\ [][NextInbox]_vars
    /\ WF_vars(classifyInboxItem)

----------------------------------------------------------------------------
(* Properties                                                              *)

Inbox == Get(Heap, "inbox").items
Tasks == Get(Heap, "tasks").items
Ideas == Get(Heap, "ideas").items

MutatingOps ==
    {"addToInbox", "classifyInboxItem", "convertInboxToTask", "convertInboxToIdea",
     "deleteInboxItem", "addQuickTask", "showAddTaskModal", "toggleTask", "editTask",
     "deleteTask", "addProject", "addIdea", "deleteIdea", "addContact", "saveApiKey",
     "import", "clear"}

\* C1: a step that changes the in-memory store is a step of one of the
\* mutating handlers, and unless its write failed the persisted blob is then
\* the serialization of the store.
C1_PersistedAfterMutation ==
    [][Store' # Store =>
          /\ last'.op \in MutatingOps
          /\ last'.wrote # "failed" => persisted' = Blob("doc", Store')]_vars

C1_Witness ==
    /\ last.op = "toggleTask"
    /\ last.wrote = "ok"
    /\ \E i \in 1..Len(Tasks) : Tasks[i].completed
    /\ persisted = Blob("doc", Store)

\* C2: convertInboxToTask(id) with id in the inbox removes exactly that item
\* and appends exactly one task with the item's text, completed = false,
\* priority 'medium', no due date, no project, an empty context and an id
\* other than the item's.
C2_ConvertToTask ==
    [][(last'.op = "convertInboxToTask" /\ HasId(Inbox, last'.id)) =>
          LET id == last'.id
              task == Tasks'[Len(Tasks')]
          IN
          /\ Len(Inbox') = Len(Inbox) - 1
          /\ Inbox' = filter(Inbox, id)
          /\ Len(Tasks') = Len(Tasks) + 1
          /\ SubSeq(Tasks', 1, Len(Tasks)) = Tasks
          /\ task.text = find(Inbox, id).text
          /\ task.completed = FALSE
          /\ task.priority = "medium"
          /\ task.dueDate = "null"
          /\ task.project = "null"
          /\ task.context = <<>>
          /\ task.id # id]_vars

C2_Witness ==
    /\ last.op = "convertInboxToTask"
    /\ last.toast = "Converted to task!"
    /\ ~HasId(Inbox, last.id)
    /\ Len(Tasks) > 0

\* C3: convertInboxToIdea(id) with id in the inbox removes that item and
\* appends exactly one idea with the same text, category 'general',
\* potential 2, status 'new' and an id no record had; tasks, projects,
\* contacts and settings stay as they were.
C3_ConvertToIdea ==
    [][(last'.op = "convertInboxToIdea" /\ HasId(Inbox, last'.id)) =>
          LET id == last'.id
              idea == Ideas'[Len(Ideas')]
          IN
          /\ Inbox' = filter(Inbox, id)
          /\ ~HasId(Inbox', id)
          /\ Len(Ideas') = Len(Ideas) + 1
          /\ SubSeq(Ideas', 1, Len(Ideas)) = Ideas
          /\ idea.text = find(Inbox, id).text
          /\ idea.category = "general"
          /\ idea.potential = 2
          /\ idea.status = "new"
          /\ idea.id # id
          /\ \A k \in Collections : ~HasId(Store[k].items, idea.id)
          /\ \A k \in {"tasks", "projects", "contacts", "settings"} : Store'[k] = Store[k]]_vars

C3_Witness ==
    /\ last.op = "convertInboxToIdea"
    /\ last.toast = "Converted to idea!"
    /\ ~HasId(Inbox, last.id)
    /\ Len(Ideas) > 0

\* C4: convertInboxToTask(id) and convertInboxToIdea(id) with id not in the
\* inbox change no collection, write nothing to localStorage and raise no
\* error.
C4_ConvertAbsentIsNoOp ==
    [][(last'.op \in {"convertInboxToTask", "convertInboxToIdea"}
        /\ ~HasId(Inbox, last'.id)) =>
          /\ state' = state
          /\ defaultData' = defaultData
          /\ persisted' = persisted
          /\ last'.wrote = "none"
          /\ ~last'.threw]_vars

C4_Witness ==
    /\ last.op \in {"convertInboxToTask", "convertInboxToIdea"}
    /\ last.wrote = "none"
    /\ ~last.threw
    /\ ~HasId(Inbox, last.id)
    /\ Len(Inbox) > 0

\* C5: with no persisted value or an unparsable one, loadData returns,
\* without throwing, the default store: the five collections present and
\* empty, settings present.
C5_LoadCorrupt ==
    (last.op = "load" /\ persisted.kind \in {"missing", "corrupt"}) =>
        /\ ~last.threw
        /\ \A k \in Collections : Store[k] = List(<<>>)
        /\ Store["settings"].kind = "obj"

C5_Witness == last.op = "load" /\ persisted.kind = "corrupt" /\ ~last.threw

ValidStore ==
    /\ \A k \in Collections : Store[k].kind = "list"
    /\ Store["settings"].kind = "obj"
    /\ Store["settings"].darkMode # "missing"
    /\ Store["settings"].apiKey # "missing"

\* C6: for any persisted content that parses as JSON, loadData returns a
\* valid store: the five collections are lists and settings has darkMode
\* and apiKey.
C6_LoadAlwaysValid ==
    (last.op = "load" /\ persisted.kind = "doc") => ValidStore

\* C7: a top-level key absent from a loaded or imported document has its
\* default value in the resulting store (an empty list, or
\* {darkMode: true, apiKey: ''}), whatever happened before.
C7_AbsentKeysDefaulted ==
    (last.op \in {"load", "import"} /\ File(last.file).kind = "doc") =>
        \A k \in Keys :
            File(last.file).doc[k].kind = "absent" => Store[k] = defaultDataLiteral[k]

\* C8: after a confirmed Clear the in-memory store and the persisted blob
\* hold five empty collections and the default settings.
C8_ClearResets ==
    last.op = "clear" =>
        /\ Store = defaultDataLiteral
        /\ persisted = Blob("doc", defaultDataLiteral)

\* C9: importing a file that is not parsable JSON leaves the in-memory
\* store and the persisted blob as they were and shows the failure toast.
C9_ImportUnparsable ==
    [][(last'.op = "import" /\ File(last'.file).kind = "corrupt") =>
          /\ state' = state
          /\ defaultData' = defaultData
          /\ persisted' = persisted
          /\ last'.toast = "Invalid file format"]_vars

C9_Witness ==
    /\ last.op = "import"
    /\ last.file = "corrupt"
    /\ last.toast = "Invalid file format"
    /\ Len(Inbox) > 0
    /\ persisted = Blob("doc", Store)

\* C10: whenever an import ends with the toast 'Invalid file format', the
\* in-memory store and the persisted blob are what they were before it.
C10_RejectedImportChangesNothing ==
    [][(last'.op = "import" /\ last'.toast = "Invalid file format") =>
          /\ Store' = Store
          /\ persisted' = persisted]_vars

\* C11: when the write to localStorage fails, the handler has still made its
\* in-memory change and raises no error, and the persisted blob keeps the
\* value it had.
C11_WriteFailureSwallowed ==
    [][last'.wrote = "failed" =>
          /\ persisted' = persisted
          /\ ~last'.threw
          /\ last'.op = "addToInbox" => Len(Inbox') = Len(Inbox) + 1
          /\ last'.op \in {"showAddTaskModal", "convertInboxToTask"} =>
                Len(Tasks') = Len(Tasks) + 1
          /\ last'.op = "convertInboxToTask" => ~HasId(Inbox', last'.id)
          /\ last'.op = "deleteInboxItem" => Len(Inbox') = Len(Inbox) - 1
          /\ last'.op = "deleteTask" => Len(Tasks') = Len(Tasks) - 1
          /\ last'.op = "toggleTask" => Tasks' # Tasks]_vars

C11_Witness ==
    /\ last.op = "convertInboxToTask"
    /\ last.wrote = "failed"
    /\ ~last.threw
    /\ Len(Tasks) > 0
    /\ persisted # Blob("doc", Store)

\* some marker of the group occurs in the text, in either case
HasMarker(text, markers) == \E m \in markers : includes(toLowerCase(text), m)

ClassifySteps == {"classifyInboxItem", "reclassify"}

\* C12: the type classifyInboxItem assigns is 'task' if a task marker occurs
\* in the text, otherwise 'idea' if an idea marker occurs, otherwise 'link'
\* if a link marker occurs, otherwise the type the item had; matching
\* ignores case and the position of the markers.
C12_ClassifyPrecedence ==
    [][(last'.op \in ClassifySteps /\ HasId(Inbox, last'.id)) =>
          LET before == find(Inbox, last'.id)
              after == find(Inbox', last'.id)
              isTask == HasMarker(before.text, TaskMarkers)
              isIdea == HasMarker(before.text, IdeaMarkers)
              isLink == HasMarker(before.text, LinkMarkers)
          IN
          /\ isTask => after.type = "task"
          /\ (~isTask /\ isIdea) => after.type = "idea"
          /\ (~isTask /\ ~isIdea /\ isLink) => after.type = "link"
          /\ (~isTask /\ ~isIdea /\ ~isLink) => after.type = before.type]_vars

C12_Witness ==
    /\ last.op = "classifyInboxItem"
    /\ \E i \in 1..Len(Inbox) :
          /\ Inbox[i].text = <<".","C","O","M">> \o TextMust
          /\ Inbox[i].type = "task"

\* C13: classifyInboxItem sets aiSummary to the first 47 characters of the
\* text followed by '...' (50 characters) when the text is longer than 50
\* characters, and leaves the empty summary of a captured item empty when it
\* is not.
C13_SummaryTruncation ==
    [][(last'.op \in ClassifySteps /\ HasId(Inbox, last'.id)) =>
          LET before == find(Inbox, last'.id)
              after == find(Inbox', last'.id)
          IN
          /\ Len(before.text) > 50 =>
                /\ after.aiSummary = SubSeq(before.text, 1, 47) \o <<".", ".", ".">>
                /\ Len(after.aiSummary) = 50
          /\ (Len(before.text) <= 50 /\ before.aiSummary = <<>>) =>
                after.aiSummary = <<>>]_vars

C13_Witness ==
    /\ last.op = "classifyInboxItem"
    /\ \E i \in 1..Len(Inbox) :
          /\ Len(Inbox[i].text) = 51
          /\ Len(Inbox[i].aiSummary) = 50
    /\ \E j \in 1..Len(Inbox) : Inbox[j].id = last.id

\* C14: classifyInboxItem applied to an item it has already classified
\* leaves the item's type and aiSummary as they were.
C14_ClassifyIdempotent ==
    [][(last'.op = "reclassify" /\ last.op \in ClassifySteps
        /\ last.id = last'.id /\ HasId(Inbox, last'.id)) =>
          LET before == find(Inbox, last'.id)
              after == find(Inbox', last'.id)
          IN
          /\ after.type = before.type
          /\ after.aiSummary = before.aiSummary]_vars

C14_Witness ==
    /\ last.op = "reclassify"
    /\ \E i \in 1..Len(Inbox) :
          /\ Inbox[i].id = last.id
          /\ Inbox[i].type = "idea"
          /\ Len(Inbox[i].text) > 50
          /\ Inbox[i].aiSummary # <<>>

\* the calendar day a due date names: the day written in the string or, for
\* a UTC timestamp, the local day of its instant
DueDay(v, tz) ==
    IF v.form = "utc" THEN LocalDay(DateParse(v, tz), tz) ELSE v.day

\* C15: getDueStatus returns 'today' for a due date on the current calendar
\* day whatever its time of day, 'overdue' for a due date on an earlier
\* calendar day, and the empty status for a later day or an absent due date.
C15_DueStatusByCalendarDay ==
    dueCheck.called =>
        LET v == dueCheck.dueDate
            day == DueDay(v, dueCheck.tz)
        IN
        /\ v.form = "null" => dueCheck.status = ""
        /\ v.form \in {"date", "local", "utc"} =>
              /\ day = dueCheck.today => dueCheck.status = "today"
              /\ day < dueCheck.today => dueCheck.status = "overdue"
              /\ day > dueCheck.today => dueCheck.status = ""

\* C16: every task has a completion timestamp exactly when it is completed.
C16_CompletedAtIffCompleted ==
    \A i \in 1..Len(Tasks) :
        (Tasks[i].completedAt.kind = "time") <=> Tasks[i].completed

C16_Witness ==
    /\ last.op = "toggleTask"
    /\ \E i \in 1..Len(Tasks) :
          /\ ~Tasks[i].completed
          /\ Tasks[i].completedAt = Null

\* the ids of the records of a document
IdsIn(doc) ==
    UNION { {doc[k].items[i].id : i \in 1..Len(doc[k].items)} : k \in Collections }

UniqueIds(doc) ==
    \A k1 \in Collections, k2 \in Collections :
        \A i \in 1..Len(doc[k1].items), j \in 1..Len(doc[k2].items) :
            doc[k1].items[i].id = doc[k2].items[j].id => (k1 = k2 /\ i = j)

RecordOps ==
    {"addToInbox", "classifyInboxItem", "convertInboxToTask", "convertInboxToIdea",
     "deleteInboxItem", "addQuickTask", "showAddTaskModal", "toggleTask", "editTask",
     "deleteTask", "addProject", "addIdea", "deleteIdea", "addContact"}

C18_OneWritePerAction ==
    [][last'.op = "classifyInboxItem" => last'.wrote = "none"]_vars

\* the replies to the n-th message in the conversation
RepliesTo(n) == {i \in 1..Len(chat) : chat[i].role = "assistant" /\ chat[i].msg = n}

\* the work still pending for the n-th message: its fetch, its reply timer
PendingFor(n) ==
    Cardinality({r \in requests : r.msg = n})
    + Cardinality({i \in 1..Len(replyTimers) : replyTimers[i] = n})

\* C19: a message has at every moment exactly one of a pending fetch, a
\* pending reply timer and a reply; when its fetch succeeds the remote answer
\* is appended, when it fails (network failure, error payload, no choices)
\* nothing is thrown and the simulated response is scheduled, which the timer
\* appends; so every message is answered in the end, exactly once.
C19_ExactlyOneReply ==
    /\ [](\A n \in 1..UserCount : Cardinality(RepliesTo(n)) + PendingFor(n) = 1)
    /\ [][last'.op = "callOpenAI" =>
            IF last'.outcome = "success"
            THEN /\ chat' = Append(chat, Reply(last'.id, "remote"))
                 /\ replyTimers' = replyTimers
            ELSE /\ ~last'.threw
                 /\ chat' = chat
                 /\ replyTimers' = Append(replyTimers, last'.id)]_vars
    /\ [][last'.op = "replyTimer" =>
            chat' = Append(chat, Reply(last'.id, "simulated"))]_vars
    /\ \A n \in 1..MaxMessages :
            (n <= UserCount) ~> (Cardinality(RepliesTo(n)) = 1 /\ PendingFor(n) = 0)

C19_Witness ==
    /\ last.op = "replyTimer"
    /\ \E i \in 1..Len(chat) : chat[i] = Reply(1, "remote")
    /\ \E i \in 1..Len(chat) : chat[i] = Reply(2, "simulated")
    /\ HasApiKey(Heap)
    /\ requests = {}

\* C20: the conversation only grows at its end, so replies stand in the
\* order in which they were completed, and the reply to a message stands
\* after the message; a message can be sent while an earlier request is
\* pending, and the reply to the later message can come first.
C20_CompletionOrder ==
    /\ [](\A i \in 1..Len(chat) :
            chat[i].role = "assistant" =>
                \E j \in 1..(i - 1) : chat[j] = UserMessage(chat[i].msg))
    /\ [][chat' # chat => chat' = Append(chat, chat'[Len(chat')])]_vars
    /\ [][(last'.op \in {"sendAiMessage", "handleQuickAction"} /\ requests # {}) =>
            requests \subseteq requests']_vars

C20_Witness ==
    \E i \in 1..Len(chat), j \in 1..Len(chat) :
        /\ i < j
        /\ chat[i] = Reply(2, "remote")
        /\ chat[j] = Reply(1, "remote")

\* C21: when the classification timer of a captured item fires after the
\* item was deleted or converted, or right after a Clear or a completed
\* import has replaced the store, the classification changes no collection
\* and writes nothing to localStorage.
C21_ClassifyAfterRemovalIsNoOp ==
    [][(last'.op = "classifyInboxItem"
        /\ \/ ~HasId(Inbox, last'.id)
           \/ last.op = "clear"
           \/ last.op = "import" /\ last.toast = "Data imported!") =>
          /\ Store' = Store
          /\ persisted' = persisted
          /\ last'.wrote = "none"]_vars

\* the ids whose classification timer is pending
TimerIds == {timers[i] : i \in 1..Len(timers)}

\* C22: a capture schedules one classification for its item; the pending
\* classification does run; it runs once (an id is never twice in the timer
\* queue and leaves it only by running); when it runs the item, if it is
\* still in the inbox, is classified; until then the item keeps the type
\* given at capture.
C22_ClassifiedOnceEventually ==
    /\ [][last'.op = "addToInbox" =>
            /\ timers' = Append(timers, generateId)
            /\ HasId(Inbox', generateId)
            /\ find(Inbox', generateId).type \in Types
            /\ find(Inbox', generateId).aiSummary = <<>>]_vars
    /\ [](\A i \in 1..Len(timers), j \in 1..Len(timers) : timers[i] = timers[j] => i = j)
    /\ [][timers' # timers =>
            \/ last'.op = "addToInbox"
            \/ last'.op = "classifyInboxItem" /\ timers = <<last'.id>> \o timers']_vars
    /\ \A id \in 1..MaxIds : (id \in TimerIds) ~> (id \notin TimerIds)
    /\ [][(last'.op = "classifyInboxItem" /\ HasId(Inbox, last'.id)) =>
            /\ HasId(Inbox', last'.id)
            /\ find(Inbox', last'.id) = classify(find(Inbox, last'.id))]_vars
    /\ [][\A id \in TimerIds \cap TimerIds' :
            (HasId(Inbox, id) /\ HasId(Inbox', id)) =>
                find(Inbox', id).type = find(Inbox, id).type]_vars

C22_Witness ==
    /\ last.op = "classifyInboxItem"
    /\ timers = <<>>
    /\ \E i \in 1..Len(Inbox) :
          /\ Inbox[i].id = last.id
          /\ Inbox[i].text = TextMust
          /\ Inbox[i].type = "task"

\* C23: after a capture, a conversion, an inbox deletion, a completed import
\* or a Clear, the inbox badge shows the number of inbox items whose status
\* is not 'done'.
C23_BadgeMatchesInbox ==
    (/\ last.op \in {"addToInbox", "convertInboxToTask", "convertInboxToIdea",
                     "deleteInboxItem", "import", "clear"}
     /\ last.wrote # "none"
     /\ ~last.threw
     /\ last.toast # "Invalid file format") =>
        inboxBadge = BadgeCount(Heap)

\* settings.apiKey is empty (or settings has no apiKey)
EmptyKey == Store["settings"].apiKey \in {"", "missing"}

\* C24: a remote request is issued only by processing a message while
\* settings.apiKey is non-empty; a message processed with an empty key
\* issues none and schedules the simulated reply, which is appended once and
\* is the only reply to that message.
C24_RequestOnlyWithKey ==
    /\ [][~(requests' \subseteq requests) =>
            /\ last'.op \in {"sendAiMessage", "handleQuickAction"}
            /\ ~EmptyKey]_vars
    /\ [][(last'.op \in {"sendAiMessage", "handleQuickAction"} /\ EmptyKey) =>
            /\ requests' = requests
            /\ replyTimers' = Append(replyTimers, last'.id)
            /\ ~last'.threw]_vars
    /\ [](\A i \in 1..Len(replyTimers) :
            /\ \A j \in 1..Len(replyTimers) : replyTimers[i] = replyTimers[j] => i = j
            /\ RepliesTo(replyTimers[i]) = {}
            /\ \A r \in requests : r.msg # replyTimers[i])
    /\ [][replyTimers' # replyTimers =>
            \/ replyTimers' = Append(replyTimers, last'.id)
            \/ /\ replyTimers = <<last'.id>> \o replyTimers'
               /\ chat' = Append(chat, Reply(last'.id, "simulated"))]_vars

C24_Witness ==
    /\ last.op = "replyTimer"
    /\ EmptyKey
    /\ requests = {}
    /\ replyTimers = <<>>
    /\ chat = <<UserMessage(1), Reply(1, "simulated")>>
    /\ persisted.kind = "missing"

====
